---- MODULE Spec2Model ----
(***************************************************************************)
(* A model of the @walln/outcomes library: the Result (Ok / Err) and       *)
(* Option (Some / None) containers of src/src/result.ts and                *)
(* src/src/option.ts.                                                      *)
(*                                                                         *)
(* The library is a set of constructors returning objects whose methods    *)
(* are closures over the constructor's argument.  The model keeps the      *)
(* objects the library has built in a heap (object identity is the heap    *)
(* index), and one action per constructor or method performs that call on  *)
(* inputs drawn from small sets and records what the caller observed in    *)
(* `last`: the value returned or thrown, and every invocation of a         *)
(* supplied callback.  The promises an asynchronous call involves are kept *)
(* in `promises` (identity is the index) and the pending microtasks, in    *)
(* the order they will run, in `jobs`.                                     *)
(***************************************************************************)
EXTENDS Integers, Sequences, FiniteSets, TLC

VARIABLES heap, last, promises, jobs

vars == <<heap, last, promises, jobs>>

(***************************************************************************)
(* Bound of the model.                                                     *)
(***************************************************************************)
MaxHeap == 4      \* objects alive at once, the None singleton included

(***************************************************************************)
(* JavaScript values.  k is the value's kind, n its number or, for an      *)
(* object, its identity (the heap index).                                  *)
(***************************************************************************)
Null == [k |-> "null", n |-> 0]
Undefined == [k |-> "undefined", n |-> 0]
Num(i) == [k |-> "number", n |-> i]
Ref(i) == [k |-> "object", n |-> i]
PRef(i) == [k |-> "promise", n |-> i]

\* The errors the library itself creates.
SomeNullError == [k |-> "TypeError: Some value cannot be null or undefined", n |-> 0]
FlattenError == [k |-> "TypeError: Cannot flatten a None value", n |-> 0]
UnwrapNoneError == [k |-> "Error: Cannot unwrap None", n |-> 0]

\* The primitive values calls are made with: both absent values, two numbers.
Prims == {Null, Undefined, Num(0), Num(1)}
Vals(h) == Prims \cup {Ref(i) : i \in DOMAIN h}

(***************************************************************************)
(* The None singleton: built once when option.ts is loaded, then frozen.   *)
(* A field an object does not have reads as undefined.                     *)
(***************************************************************************)
NoneId == 1
None == [type |-> "none", value |-> Undefined, error |-> Undefined]

(***************************************************************************)
(* What a call did: the heap after it, whether it returned or threw, the   *)
(* value returned or thrown, the invocations of the supplied function (its *)
(* argument and its outcome, in order) and the number of times the default *)
(* producer was invoked.                                                   *)
(***************************************************************************)
Return(h, v) == [heap |-> h, out |-> "return", val |-> v, calls |-> <<>>, dcalls |-> 0]
Throw(h, v) == [heap |-> h, out |-> "throw", val |-> v, calls |-> <<>>, dcalls |-> 0]

\* o happens after c: the callback invocations of c precede those of o.
Then(c, o) == [o EXCEPT !.calls = c.calls \o @, !.dcalls = c.dcalls + @]

(***************************************************************************)
(* Constructors.                                                           *)
(***************************************************************************)
\* Faulty variants of Some: one that checks nothing, one that forgets undefined.
SomeUnchecked(h, value) ==
  Return(Append(h, [type |-> "some", value |-> value, error |-> Undefined]),
         Ref(Len(h) + 1))

SomeNullOnly(h, value) ==
  IF value = Null THEN Throw(h, SomeNullError)
  ELSE SomeUnchecked(h, value)

Some(h, value) ==
  IF value = Null \/ value = Undefined
  THEN Throw(h, SomeNullError)
  ELSE Return(Append(h, [type |-> "some", value |-> value, error |-> Undefined]),
              Ref(Len(h) + 1))

Option(h, value) ==
  IF value = Undefined \/ value = Null THEN Return(h, Ref(NoneId)) ELSE Some(h, value)

Ok(h, value) ==
  Return(Append(h, [type |-> "value", value |-> value, error |-> Undefined]),
         Ref(Len(h) + 1))

Err(h, error) ==
  Return(Append(h, [type |-> "error", value |-> Undefined, error |-> error]),
         Ref(Len(h) + 1))

\* A default argument of mapOr: a plain value c, or (callable) a function
\* that returns c when invoked with no argument.
NoD == [callable |-> FALSE, c |-> Undefined]
Defaults == [callable : BOOLEAN, c : {Null, Undefined, Num(0)}]

getFnValue(h, df) ==
  IF df.callable THEN [Return(h, df.c) EXCEPT !.dcalls = 1] ELSE Return(h, df.c)

(***************************************************************************)
(* The functions a caller supplies.  A function is described by what it    *)
(* does when invoked on x: return x, return or throw a fixed value, or     *)
(* build and return a container through one of the library's constructors. *)
(***************************************************************************)
Fn(kind, c) == [kind |-> kind, c |-> c]

Call(h, fn, x) ==
  LET o == CASE fn.kind = "id" -> Return(h, x)
             [] fn.kind = "const" -> Return(h, fn.c)
             [] fn.kind = "throw" -> Throw(h, fn.c)
             [] fn.kind = "Some" -> Some(h, fn.c)
             [] fn.kind = "Option" -> Option(h, fn.c)
             [] fn.kind = "Ok" -> Ok(h, fn.c)
             [] fn.kind = "Err" -> Err(h, fn.c)
  IN [o EXCEPT !.calls = <<[arg |-> x, out |-> o.out, val |-> o.val]>>]

IsOptionRef(h, v) == v.k = "object" /\ h[v.n].type \in {"some", "none"}
IsResultRef(h, v) == v.k = "object" /\ h[v.n].type \in {"value", "error"}

\* The Options and the Results built so far, as values.
OptionRefs(h) == {v \in Vals(h) : IsOptionRef(h, v)}
ResultRefs(h) == {v \in Vals(h) : IsResultRef(h, v)}

\* Payloads handed to Some and Option (an Option may nest), and to Ok and Err.
OptionArgs(h) == Prims \cup OptionRefs(h)
ResultArgs(h) == Prims

\* Functions for Option's map and mapOr: (value) => U.
MapFns(h) ==
  {Fn("id", Undefined)} \cup {Fn("const", c) : c \in OptionArgs(h)}
    \cup {Fn("throw", c) : c \in Prims}

\* Functions for Result's map: (value) => U.
ResultMapFns(h) ==
  {Fn("id", Undefined)} \cup {Fn(k, c) : k \in {"const", "throw"}, c \in ResultArgs(h)}

\* Functions for Option's flatMap: (value) => Option<U>.
OptionFns(h) ==
  {Fn(k, c) : k \in {"Some", "Option"}, c \in Prims}
    \cup {Fn("const", c) : c \in OptionRefs(h)}
    \cup {Fn("throw", c) : c \in Prims}

\* Functions for Result's flatMap: (value) => Result<U, E>.
ResultFns(h) ==
  {Fn(k, c) : k \in {"Ok", "Err"}, c \in ResultArgs(h)}
    \cup {Fn("const", c) : c \in ResultRefs(h)}
    \cup {Fn("throw", c) : c \in Prims}

(***************************************************************************)
(* Promises.  A promise is pending, fulfilled or rejected; `reactions` are *)
(* the promises, in registration order, that adopt its outcome once it     *)
(* settles; `settleable` marks                                             *)
(* a promise whose resolve and reject functions the caller holds.          *)
(***************************************************************************)
Pending(settleable) ==
  [state |-> "pending", val |-> Undefined, reactions |-> <<>>, settleable |-> settleable]
Settled(state, v) ==
  [state |-> state, val |-> v, reactions |-> <<>>, settleable |-> FALSE]

\* Microtasks: NewPromiseResolveThenableJob(q, p) performs p.then(resolve q,
\* reject q); PromiseReactionJob settles q with the outcome p settled with.
ResolveThenableJob(q, p) == [kind |-> "resolveThenable", q |-> q, p |-> p]
ReactionJob(q, p) == [kind |-> "reaction", q |-> q, p |-> p]

\* The outcome of an asynchronous call carries the promises and the microtasks.
WithPromises(o, ps, js) ==
  [heap |-> o.heap, out |-> o.out, val |-> o.val, calls |-> o.calls,
   dcalls |-> o.dcalls, promises |-> ps, jobs |-> js]

\* A function returning a promise: it throws before returning one ("throw"),
\* returns a promise the caller settles later ("pending"), or is an async
\* function whose body builds a container or throws ("asyncOk", ...), so that
\* the promise it returns is settled already.
AsyncBody(fn) ==
  CASE fn.kind = "asyncSome" -> Fn("Some", fn.c)
    [] fn.kind = "asyncOption" -> Fn("Option", fn.c)
    [] fn.kind = "asyncOk" -> Fn("Ok", fn.c)
    [] fn.kind = "asyncErr" -> Fn("Err", fn.c)
    [] fn.kind = "asyncThrow" -> Fn("throw", fn.c)

CallAsync(h, ps, fn, x) ==
  LET p == Len(ps) + 1
      returned(hh, pp) ==
        [WithPromises(Return(hh, PRef(p)), Append(ps, pp), <<>>)
           EXCEPT !.calls = <<[arg |-> x, out |-> "return", val |-> PRef(p)]>>]
  IN IF fn.kind = "throw" THEN WithPromises(Call(h, fn, x), ps, <<>>)
     ELSE IF fn.kind = "pending" THEN returned(h, Pending(TRUE))
     ELSE LET b == Call(h, AsyncBody(fn), x)
          IN returned(b.heap,
                      Settled(IF b.out = "return" THEN "fulfilled" ELSE "rejected", b.val))

\* Functions for Option's flatMapAsync: (value) => Promise<Option<U>>.
OptionAsyncFns ==
  {Fn(k, c) : k \in {"asyncSome", "asyncOption", "asyncThrow", "throw"}, c \in Prims}
    \cup {Fn("pending", Undefined)}

\* Functions for Result's flatMapAsync: (value) => Promise<Result<U, E>>.
ResultAsyncFns ==
  {Fn(k, c) : k \in {"asyncOk", "asyncErr", "asyncThrow", "throw"}, c \in Prims}
    \cup {Fn("pending", Undefined)}

\* An async function that ran fn(value) as its body, with q its own promise:
\* a throw rejects q, a returned promise is adopted by a microtask, any other
\* returned value fulfils q.
AsyncReturn(q, c) ==
  IF c.out = "throw"
  THEN [c EXCEPT !.out = "return", !.val = PRef(q),
                 !.promises[q] = Settled("rejected", c.val)]
  ELSE IF c.val.k = "promise"
  THEN [c EXCEPT !.val = PRef(q), !.jobs = Append(@, ResolveThenableJob(q, c.val.n))]
  ELSE [c EXCEPT !.val = PRef(q), !.promises[q] = Settled("fulfilled", c.val)]

\* Functions for unwrapOrElse and handlers for match.
ElseFns == {Fn("id", Undefined)} \cup {Fn(k, c) : k \in {"const", "throw"}, c \in Prims}
HandlerFns == {Fn("id", Undefined), Fn("const", Num(0)), Fn("throw", Num(1))}
OptionHandlers == [Some : HandlerFns, None : HandlerFns]
ResultHandlers == [Ok : HandlerFns, Err : HandlerFns]

\* handlers.<name>(x): the invocation is recorded with the handler's name.
CallHandler(h, name, fn, x) ==
  LET o == Call(h, fn, x)
  IN [o EXCEPT !.calls = <<[handler |-> name, arg |-> x, out |-> o.out, val |-> o.val]>>]

(***************************************************************************)
(* The methods of a Some: closures over the constructor's `value`.         *)
(***************************************************************************)
Some_unwrap(h, value) == Return(h, value)

Some_unwrapOr(h, value, defaultValue) == Return(h, value)

Some_unwrapOrElse(h, value, fn) == Return(h, value)

Some_okOr(h, value, err) == Ok(h, value)

Some_match(h, value, handlers) == CallHandler(h, "Some", handlers.Some, value)

\* A faulty map that wraps through Option, turning an absent result into None.
Some_mapOption(h, value, fn) ==
  LET c == Call(h, fn, value)
  IN IF c.out = "throw" THEN c ELSE Then(c, Option(c.heap, c.val))

Some_map(h, value, fn) ==
  LET c == Call(h, fn, value)
  IN IF c.out = "throw" THEN c ELSE Then(c, Some(c.heap, c.val))

\* A faulty mapOr that evaluates its default although the value is present.
Some_mapOrEager(h, value, fn, defaultValue) ==
  LET g == getFnValue(h, defaultValue)
      c == Call(g.heap, fn, value)
  IN IF c.out = "throw" THEN Then(g, c) ELSE Then(g, Then(c, Some(c.heap, c.val)))

Some_mapOr(h, value, fn, defaultValue) ==
  LET c == Call(h, fn, value)
  IN IF c.out = "throw" THEN c ELSE Then(c, Some(c.heap, c.val))

\* async (fn) => fn(value)
Some_flatMapAsync(h, ps, value, fn) ==
  LET q == Len(ps) + 1
  IN AsyncReturn(q, CallAsync(h, Append(ps, Pending(FALSE)), fn, value))

Some_flatMap(h, value, fn) == Call(h, fn, value)

isOption(h, value) ==
  IF value = Null \/ value = Undefined THEN FALSE
  ELSE \/ value.k = "object" /\ h[value.n].type = "some"
       \/ value.k = "object" /\ h[value.n].type = "none"

\* A faulty flatten that removes two levels when it can.
Some_flattenTwice(h, value) ==
  IF isOption(h, value) /\ h[value.n].type = "some"
  THEN IF isOption(h, h[value.n].value) /\ h[h[value.n].value.n].type = "some"
       THEN Return(h, h[value.n].value)
       ELSE Return(h, value)
  ELSE Throw(h, FlattenError)

Some_flatten(h, value) ==
  IF isOption(h, value) /\ h[value.n].type = "some"
  THEN Return(h, value)
  ELSE Throw(h, FlattenError)

(***************************************************************************)
(* The methods of the None singleton.                                      *)
(***************************************************************************)
None_unwrap(h) == Throw(h, UnwrapNoneError)

None_unwrapOr(h, defaultValue) == Return(h, defaultValue)

\* fn(): the function receives no argument, its parameter reads as undefined.
None_unwrapOrElse(h, fn) == Call(h, fn, Undefined)

\* A faulty okOr that loses the caller's error.
None_okOrDropsError(h, err) == Err(h, Undefined)

None_okOr(h, err) == Err(h, err)

None_match(h, handlers) == CallHandler(h, "None", handlers.None, Undefined)

None_map(h, fn) == Return(h, Ref(NoneId))

\* A faulty mapOr that wraps the default with Some instead of Option.
None_mapOrSome(h, fn, defaultValue) ==
  LET g == getFnValue(h, defaultValue)
  IN Then(g, Some(g.heap, g.val))

None_mapOr(h, fn, defaultValue) ==
  LET g == getFnValue(h, defaultValue)
  IN Then(g, Option(g.heap, g.val))

\* async (_fn) => None
None_flatMapAsync(h, ps, fn) ==
  LET q == Len(ps) + 1
  IN AsyncReturn(q, WithPromises(Return(h, Ref(NoneId)), Append(ps, Pending(FALSE)), <<>>))

None_flatMap(h, fn) == Return(h, Ref(NoneId))

\* A faulty flatten that builds another none-tagged object.
None_flattenFresh(h) == Return(Append(h, None), Ref(Len(h) + 1))

None_flatten(h) == Return(h, Ref(NoneId))

(***************************************************************************)
(* The methods of an Ok: closures over the constructor's `value`.          *)
(***************************************************************************)
Ok_unwrap(h, value) == Return(h, value)

Ok_unwrapOr(h, value, defaultValue) == Return(h, value)

\* A faulty unwrapOrElse that evaluates the fallback although a value is present.
Ok_unwrapOrElseEager(h, value, fn) ==
  LET c == Call(h, fn, value)
  IN Then(c, Return(c.heap, value))

Ok_unwrapOrElse(h, value, fn) == Return(h, value)

Ok_match(h, value, handlers) == CallHandler(h, "Ok", handlers.Ok, value)

\* A faulty toOption that wraps with Some instead of Option.
Ok_toOptionSome(h, value) == Some(h, value)

Ok_toOption(h, value) == Option(h, value)

\* A faulty flatMap that captures the function's fault as map does.
Ok_flatMapCatch(h, value, fn) ==
  LET c == Call(h, fn, value)
  IN IF c.out = "throw" THEN Then(c, Err(c.heap, c.val)) ELSE c

\* A faulty flatMapAsync that fulfils its promise with fn's promise as it is,
\* without waiting for it.
Ok_flatMapAsyncNoAdopt(h, ps, value, fn) ==
  LET q == Len(ps) + 1
      c == CallAsync(h, Append(ps, Pending(FALSE)), fn, value)
  IN IF c.out = "throw" THEN AsyncReturn(q, c)
     ELSE [c EXCEPT !.val = PRef(q), !.promises[q] = Settled("fulfilled", c.val)]

\* A faulty flatMapAsync that is not an async function: (fn) => fn(value).
Ok_flatMapAsyncNotAsync(h, ps, value, fn) ==
  CallAsync(h, Append(ps, Pending(FALSE)), fn, value)

\* async (fn) => fn(value)
Ok_flatMapAsync(h, ps, value, fn) ==
  LET q == Len(ps) + 1
  IN AsyncReturn(q, CallAsync(h, Append(ps, Pending(FALSE)), fn, value))

Ok_flatMap(h, value, fn) == Call(h, fn, value)

\* A faulty map without the try/catch.
Ok_mapNoCatch(h, value, fn) ==
  LET c == Call(h, fn, value)
  IN IF c.out = "throw" THEN c ELSE Then(c, Ok(c.heap, c.val))

\* try { return Ok(fn(value)) } catch (error) { return Err(error) }
Ok_map(h, value, fn) ==
  LET c == Call(h, fn, value)
  IN IF c.out = "throw" THEN Then(c, Err(c.heap, c.val)) ELSE Then(c, Ok(c.heap, c.val))

(***************************************************************************)
(* The methods of an Err: closures over the constructor's `error`.         *)
(***************************************************************************)
\* A faulty unwrap that throws an error of its own instead of the payload.
Err_unwrapFixed(h, error) == Throw(h, UnwrapNoneError)

Err_unwrap(h, error) == Throw(h, error)

\* A faulty unwrapOr that throws the error as unwrap does.
Err_unwrapOrThrows(h, error, defaultValue) == Throw(h, error)

Err_unwrapOr(h, error, defaultValue) == Return(h, defaultValue)

Err_unwrapOrElse(h, error, fn) == Call(h, fn, error)

\* A faulty match that picks the other handler.
Err_matchOther(h, error, handlers) == CallHandler(h, "Ok", handlers.Ok, error)

Err_match(h, error, handlers) == CallHandler(h, "Err", handlers.Err, error)

Err_toOption(h, error) == Return(h, Ref(NoneId))

\* A faulty flatMapAsync that returns through a second promise:
\* async () => Promise.resolve(Err(error)).
Err_flatMapAsyncDeferred(h, ps, error, fn) ==
  LET q == Len(ps) + 1
      e == Err(h, error)
  IN AsyncReturn(q, WithPromises(Return(e.heap, PRef(q + 1)),
                                 Append(Append(ps, Pending(FALSE)), Settled("fulfilled", e.val)),
                                 <<>>))

\* async () => Err(error)
Err_flatMapAsync(h, ps, error, fn) ==
  LET q == Len(ps) + 1
  IN AsyncReturn(q, WithPromises(Err(h, error), Append(ps, Pending(FALSE)), <<>>))

Err_flatMap(h, error, fn) == Err(h, error)

\* A faulty map that runs the function on the error payload.
Err_mapInvokes(h, error, fn) ==
  LET c == Call(h, fn, error)
  IN Then(c, Err(c.heap, error))

Err_map(h, error, fn) == Err(h, error)

\* Between two calls the caller holds no outcome.
Idle == [op |-> "idle", recv |-> 0, arg |-> Undefined, d |-> NoD,
         out |-> "return", val |-> Undefined, calls |-> <<>>, dcalls |-> 0,
         pre |-> <<None>>]

\* After option.ts and result.ts are loaded: None exists, nothing was called.
Init ==
  /\ heap = <<None>>
  /\ last = Idle
  /\ promises = <<>>
  /\ jobs = <<>>

\* The caller's view of a call: the operation, its receiver (0 for a
\* constructor), its value argument, its default argument, and the outcome.
Observe(op, recv, arg, d, o) ==
  /\ Len(o.heap) <= MaxHeap
  /\ heap' = o.heap
  /\ last' = [op |-> op, recv |-> recv, arg |-> arg, d |-> d,
              out |-> o.out, val |-> o.val, calls |-> o.calls, dcalls |-> o.dcalls,
              pre |-> heap]
  /\ UNCHANGED <<promises, jobs>>

\* The same for an asynchronous call, which leaves promises and microtasks.
ObserveAsync(op, recv, o) ==
  /\ Len(o.heap) <= MaxHeap
  /\ heap' = o.heap
  /\ last' = [op |-> op, recv |-> recv, arg |-> Undefined, d |-> NoD,
              out |-> o.out, val |-> o.val, calls |-> o.calls, dcalls |-> o.dcalls,
              pre |-> heap]
  /\ promises' = o.promises
  /\ jobs' = o.jobs

\* The objects of one variant the caller can hold.
Objs(type) == {i \in DOMAIN heap : heap[i].type = type}

CallSome ==
  /\ last = Idle
  /\ \E v \in OptionArgs(heap) : Observe("Some", 0, v, NoD, Some(heap, v))

CallOption ==
  /\ last = Idle
  /\ \E v \in OptionArgs(heap) : Observe("Option", 0, v, NoD, Option(heap, v))

CallOk ==
  /\ last = Idle
  /\ \E v \in ResultArgs(heap) : Observe("Ok", 0, v, NoD, Ok(heap, v))

CallErr ==
  /\ last = Idle
  /\ \E e \in ResultArgs(heap) : Observe("Err", 0, e, NoD, Err(heap, e))

SomeUnwrap ==
  /\ last = Idle
  /\ \E i \in Objs("some") :
       Observe("Some.unwrap", i, Undefined, NoD, Some_unwrap(heap, heap[i].value))

SomeMap ==
  /\ last = Idle
  /\ \E i \in Objs("some"), fn \in MapFns(heap) :
       Observe("Some.map", i, Undefined, NoD, Some_map(heap, heap[i].value, fn))

SomeMapOr ==
  /\ last = Idle
  /\ \E i \in Objs("some"), fn \in MapFns(heap), d \in Defaults :
       Observe("Some.mapOr", i, Undefined, d, Some_mapOr(heap, heap[i].value, fn, d))

SomeFlatMap ==
  /\ last = Idle
  /\ \E i \in Objs("some"), fn \in OptionFns(heap) :
       Observe("Some.flatMap", i, Undefined, NoD, Some_flatMap(heap, heap[i].value, fn))

SomeFlatten ==
  /\ last = Idle
  /\ \E i \in Objs("some") :
       Observe("Some.flatten", i, Undefined, NoD, Some_flatten(heap, heap[i].value))

NoneUnwrap ==
  /\ last = Idle
  /\ \E i \in Objs("none") : Observe("None.unwrap", i, Undefined, NoD, None_unwrap(heap))

NoneMap ==
  /\ last = Idle
  /\ \E i \in Objs("none"), fn \in MapFns(heap) :
       Observe("None.map", i, Undefined, NoD, None_map(heap, fn))

NoneMapOr ==
  /\ last = Idle
  /\ \E i \in Objs("none"), fn \in MapFns(heap), d \in Defaults :
       Observe("None.mapOr", i, Undefined, d, None_mapOr(heap, fn, d))

NoneFlatMap ==
  /\ last = Idle
  /\ \E i \in Objs("none"), fn \in OptionFns(heap) :
       Observe("None.flatMap", i, Undefined, NoD, None_flatMap(heap, fn))

NoneFlatten ==
  /\ last = Idle
  /\ \E i \in Objs("none") : Observe("None.flatten", i, Undefined, NoD, None_flatten(heap))

OkUnwrap ==
  /\ last = Idle
  /\ \E i \in Objs("value") :
       Observe("Ok.unwrap", i, Undefined, NoD, Ok_unwrap(heap, heap[i].value))

OkToOption ==
  /\ last = Idle
  /\ \E i \in Objs("value") :
       Observe("Ok.toOption", i, Undefined, NoD, Ok_toOption(heap, heap[i].value))

OkFlatMap ==
  /\ last = Idle
  /\ \E i \in Objs("value"), fn \in ResultFns(heap) :
       Observe("Ok.flatMap", i, Undefined, NoD, Ok_flatMap(heap, heap[i].value, fn))

OkMap ==
  /\ last = Idle
  /\ \E i \in Objs("value"), fn \in ResultMapFns(heap) :
       Observe("Ok.map", i, Undefined, NoD, Ok_map(heap, heap[i].value, fn))

ErrUnwrap ==
  /\ last = Idle
  /\ \E i \in Objs("error") :
       Observe("Err.unwrap", i, Undefined, NoD, Err_unwrap(heap, heap[i].error))

ErrToOption ==
  /\ last = Idle
  /\ \E i \in Objs("error") :
       Observe("Err.toOption", i, Undefined, NoD, Err_toOption(heap, heap[i].error))

ErrFlatMap ==
  /\ last = Idle
  /\ \E i \in Objs("error"), fn \in ResultFns(heap) :
       Observe("Err.flatMap", i, Undefined, NoD, Err_flatMap(heap, heap[i].error, fn))

ErrMap ==
  /\ last = Idle
  /\ \E i \in Objs("error"), fn \in ResultMapFns(heap) :
       Observe("Err.map", i, Undefined, NoD, Err_map(heap, heap[i].error, fn))

SomeUnwrapOr ==
  /\ last = Idle
  /\ \E i \in Objs("some"), d \in Prims :
       Observe("Some.unwrapOr", i, d, NoD, Some_unwrapOr(heap, heap[i].value, d))

SomeUnwrapOrElse ==
  /\ last = Idle
  /\ \E i \in Objs("some"), fn \in ElseFns :
       Observe("Some.unwrapOrElse", i, Undefined, NoD,
               Some_unwrapOrElse(heap, heap[i].value, fn))

SomeOkOr ==
  /\ last = Idle
  /\ \E i \in Objs("some"), e \in Prims :
       Observe("Some.okOr", i, e, NoD, Some_okOr(heap, heap[i].value, e))

SomeMatch ==
  /\ last = Idle
  /\ \E i \in Objs("some"), handlers \in OptionHandlers :
       Observe("Some.match", i, Undefined, NoD, Some_match(heap, heap[i].value, handlers))

NoneUnwrapOr ==
  /\ last = Idle
  /\ \E i \in Objs("none"), d \in Prims :
       Observe("None.unwrapOr", i, d, NoD, None_unwrapOr(heap, d))

NoneUnwrapOrElse ==
  /\ last = Idle
  /\ \E i \in Objs("none"), fn \in ElseFns :
       Observe("None.unwrapOrElse", i, Undefined, NoD, None_unwrapOrElse(heap, fn))

NoneOkOr ==
  /\ last = Idle
  /\ \E i \in Objs("none"), e \in Prims :
       Observe("None.okOr", i, e, NoD, None_okOr(heap, e))

NoneMatch ==
  /\ last = Idle
  /\ \E i \in Objs("none"), handlers \in OptionHandlers :
       Observe("None.match", i, Undefined, NoD, None_match(heap, handlers))

OkUnwrapOr ==
  /\ last = Idle
  /\ \E i \in Objs("value"), d \in Prims :
       Observe("Ok.unwrapOr", i, d, NoD, Ok_unwrapOr(heap, heap[i].value, d))

OkUnwrapOrElse ==
  /\ last = Idle
  /\ \E i \in Objs("value"), fn \in ElseFns :
       Observe("Ok.unwrapOrElse", i, Undefined, NoD,
               Ok_unwrapOrElse(heap, heap[i].value, fn))

OkMatch ==
  /\ last = Idle
  /\ \E i \in Objs("value"), handlers \in ResultHandlers :
       Observe("Ok.match", i, Undefined, NoD, Ok_match(heap, heap[i].value, handlers))

ErrUnwrapOr ==
  /\ last = Idle
  /\ \E i \in Objs("error"), d \in Prims :
       Observe("Err.unwrapOr", i, d, NoD, Err_unwrapOr(heap, heap[i].error, d))

ErrUnwrapOrElse ==
  /\ last = Idle
  /\ \E i \in Objs("error"), fn \in ElseFns :
       Observe("Err.unwrapOrElse", i, Undefined, NoD,
               Err_unwrapOrElse(heap, heap[i].error, fn))

ErrMatch ==
  /\ last = Idle
  /\ \E i \in Objs("error"), handlers \in ResultHandlers :
       Observe("Err.match", i, Undefined, NoD, Err_match(heap, heap[i].error, handlers))

SomeFlatMapAsync ==
  /\ last = Idle
  /\ \E i \in Objs("some"), fn \in OptionAsyncFns :
       ObserveAsync("Some.flatMapAsync", i,
                    Some_flatMapAsync(heap, promises, heap[i].value, fn))

NoneFlatMapAsync ==
  /\ last = Idle
  /\ \E i \in Objs("none"), fn \in OptionAsyncFns :
       ObserveAsync("None.flatMapAsync", i, None_flatMapAsync(heap, promises, fn))

OkFlatMapAsync ==
  /\ last = Idle
  /\ \E i \in Objs("value"), fn \in ResultAsyncFns :
       ObserveAsync("Ok.flatMapAsync", i,
                    Ok_flatMapAsync(heap, promises, heap[i].value, fn))

ErrFlatMapAsync ==
  /\ last = Idle
  /\ \E i \in Objs("error"), fn \in ResultAsyncFns :
       ObserveAsync("Err.flatMapAsync", i,
                    Err_flatMapAsync(heap, promises, heap[i].error, fn))

\* The first microtask is a NewPromiseResolveThenableJob: p.then(...) queues
\* the reaction at once when p is settled, and registers it on p otherwise.
RunResolveThenableJob ==
  /\ jobs # <<>>
  /\ Head(jobs).kind = "resolveThenable"
  /\ LET q == Head(jobs).q
         p == Head(jobs).p
     IN IF promises[p].state = "pending"
        THEN /\ promises' = [promises EXCEPT ![p].reactions = Append(@, q)]
             /\ jobs' = Tail(jobs)
        ELSE /\ jobs' = Append(Tail(jobs), ReactionJob(q, p))
             /\ UNCHANGED promises
  /\ UNCHANGED <<heap, last>>

\* The first microtask is a reaction: q takes the outcome p settled with.
RunReactionJob ==
  /\ jobs # <<>>
  /\ Head(jobs).kind = "reaction"
  /\ LET q == Head(jobs).q
         p == Head(jobs).p
     IN promises' = [promises EXCEPT ![q] = Settled(promises[p].state, promises[p].val)]
  /\ jobs' = Tail(jobs)
  /\ UNCHANGED <<heap, last>>

\* The caller settles a promise it handed out: it fulfils it with a container
\* built earlier or rejects it with a reason; the registered reactions are
\* queued.
SettlePromise ==
  \E p \in DOMAIN promises :
    /\ promises[p].state = "pending"
    /\ promises[p].settleable
    /\ \E st \in {"fulfilled", "rejected"} :
         \E v \in (IF st = "fulfilled" THEN {Ref(i) : i \in DOMAIN heap} ELSE Prims) :
           /\ promises' = [promises EXCEPT ![p] = Settled(st, v)]
           /\ jobs' = jobs \o [i \in DOMAIN promises[p].reactions |->
                                 ReactionJob(promises[p].reactions[i], p)]
    /\ UNCHANGED <<heap, last>>

\* The caller has looked at the outcome and goes on to its next statement;
\* the promises of the call it leaves behind are dropped with it.
Continue ==
  /\ last # Idle
  /\ last' = Idle
  /\ promises' = <<>>
  /\ jobs' = <<>>
  /\ UNCHANGED heap

Next ==
  \/ CallSome \/ CallOption \/ CallOk \/ CallErr
  \/ SomeUnwrap \/ SomeMap \/ SomeMapOr \/ SomeFlatMap \/ SomeFlatten
  \/ NoneUnwrap \/ NoneMap \/ NoneMapOr \/ NoneFlatMap \/ NoneFlatten
  \/ OkUnwrap \/ OkToOption \/ OkFlatMap \/ OkMap
  \/ ErrUnwrap \/ ErrToOption \/ ErrFlatMap \/ ErrMap
  \/ SomeUnwrapOr \/ SomeUnwrapOrElse \/ SomeOkOr \/ SomeMatch
  \/ NoneUnwrapOr \/ NoneUnwrapOrElse \/ NoneOkOr \/ NoneMatch
  \/ OkUnwrapOr \/ OkUnwrapOrElse \/ OkMatch
  \/ ErrUnwrapOr \/ ErrUnwrapOrElse \/ ErrMatch
  \/ SomeFlatMapAsync \/ NoneFlatMapAsync \/ OkFlatMapAsync \/ ErrFlatMapAsync
  \/ RunResolveThenableJob \/ RunReactionJob \/ SettlePromise
  \/ Continue

Spec == Init /\ [][Next]_vars

(***************************************************************************)
(* Vocabulary of the properties.                                           *)
(***************************************************************************)
Nullish(v) == v = Null \/ v = Undefined

\* The receiver of the last call, as it was when the call was made.
Recv == last.pre[last.recv]

\* The last call built nothing.
NothingBuilt == heap = last.pre

\* The last call built exactly one object, obj, and returned it.
ReturnedNew(obj) ==
  /\ last.out = "return"
  /\ heap = Append(last.pre, obj)
  /\ last.val = Ref(Len(heap))

\* The last call returned the None singleton and built nothing.
ReturnedNone == last.out = "return" /\ last.val = Ref(NoneId) /\ NothingBuilt

\* The last call threw e and built nothing.
Threw(e) == last.out = "throw" /\ last.val = e /\ NothingBuilt

SomeOf(v) == [type |-> "some", value |-> v, error |-> Undefined]
OkOf(v) == [type |-> "value", value |-> v, error |-> Undefined]
ErrOf(e) == [type |-> "error", value |-> Undefined, error |-> e]

\* The supplied function was invoked exactly once, with v.
InvokedOnceWith(v) == Len(last.calls) = 1 /\ last.calls[1].arg = v

\* The supplied function was never invoked.
NeverInvoked == last.calls = <<>>

(***************************************************************************)
(* C1: in every reachable state, whatever sequence of constructors,        *)
(* conversions, map, mapOr, flatMap and flatten calls led to it, no object *)
(* tagged "some" holds null or undefined as its payload.                   *)
(***************************************************************************)
C1_SomeNeverHoldsNullish ==
  \A i \in DOMAIN heap : heap[i].type = "some" => ~Nullish(heap[i].value)

\* A function handed to map returned null, and Somes exist.
C1_Witness ==
  /\ last.op = "Some.map"
  /\ Len(last.calls) = 1 /\ last.calls[1].out = "return" /\ last.calls[1].val = Null
  /\ \E i \in DOMAIN heap : heap[i].type = "some"

(***************************************************************************)
(* C2: Some(v) throws exactly when v is null or undefined, and then builds *)
(* no Option; otherwise it returns a new some-tagged Option with payload   *)
(* v.  Option(v) never throws: it returns the None singleton when v is     *)
(* null or undefined and a new Some with payload v otherwise.              *)
(***************************************************************************)
C2_SomeFaultsExactlyOnNullish ==
  /\ last.op = "Some" =>
       /\ last.out = "throw" <=> Nullish(last.arg)
       /\ last.out = "throw" => Threw(SomeNullError)
       /\ last.out = "return" => ReturnedNew(SomeOf(last.arg))
  /\ last.op = "Option" =>
       /\ last.out = "return"
       /\ IF Nullish(last.arg) THEN ReturnedNone ELSE ReturnedNew(SomeOf(last.arg))

C2_Witness == last.op = "Some" /\ last.arg = Undefined /\ last.out = "throw"

C4_Claimed ==
  last.op = "Some.mapOr" =>
    /\ InvokedOnceWith(Recv.value)
    /\ last.dcalls = 0
    /\ last.calls[1].out = "return" =>
         IF Nullish(last.calls[1].val)
         THEN ReturnedNone
         ELSE ReturnedNew(SomeOf(last.calls[1].val))

(***************************************************************************)
(* C4, amended: Some(v).mapOr(fn, d) applies fn to v once and wraps the    *)
(* result through Some, not through Option: it returns a new Some with     *)
(* payload fn(v) when fn(v) is neither null nor undefined, and throws      *)
(* Some's TypeError when fn(v) is null or undefined; a fault of fn         *)
(* propagates; d is neither used nor invoked.                              *)
(***************************************************************************)
C4_SomeMapOrWrapsWithSome ==
  last.op = "Some.mapOr" =>
    /\ InvokedOnceWith(Recv.value)
    /\ last.dcalls = 0
    /\ IF last.calls[1].out = "throw" THEN Threw(last.calls[1].val)
       ELSE IF Nullish(last.calls[1].val) THEN Threw(SomeNullError)
       ELSE ReturnedNew(SomeOf(last.calls[1].val))

\* mapOr on a Some, with a function returning undefined and a callable default.
C4_Witness ==
  /\ last.op = "Some.mapOr"
  /\ last.d.callable
  /\ Len(last.calls) = 1 /\ last.calls[1].out = "return"
  /\ last.calls[1].val = Undefined

(***************************************************************************)
(* C5: None.mapOr(fn, d) never invokes fn; it takes x = d() when d is a    *)
(* producer (a function, invoked exactly once with no argument) and x = d  *)
(* otherwise, and returns Option(x): the None singleton when x is null or  *)
(* undefined, a new Some with payload x otherwise.                         *)
(***************************************************************************)
C5_NoneMapOrWrapsDefault ==
  last.op = "None.mapOr" =>
    /\ NeverInvoked
    /\ last.dcalls = (IF last.d.callable THEN 1 ELSE 0)
    /\ IF Nullish(last.d.c) THEN ReturnedNone ELSE ReturnedNew(SomeOf(last.d.c))

\* mapOr on None with a producer that yields null.
C5_Witness ==
  last.op = "None.mapOr" /\ last.d.callable /\ last.d.c = Null /\ last.dcalls = 1

(***************************************************************************)
(* C6: Ok(v).map(fn) invokes fn exactly once with v and never throws: it   *)
(* returns a new Ok with payload fn(v) when fn returns (an Ok equal to the *)
(* receiver when fn maps v to v), and a new Err whose payload is the       *)
(* thrown value when fn throws.                                            *)
(***************************************************************************)
C6_OkMapCapturesFaults ==
  last.op = "Ok.map" =>
    /\ InvokedOnceWith(Recv.value)
    /\ IF last.calls[1].out = "return"
       THEN /\ ReturnedNew(OkOf(last.calls[1].val))
            /\ last.calls[1].val = Recv.value => heap[last.val.n] = Recv
       ELSE ReturnedNew(ErrOf(last.calls[1].val))

\* The function handed to Ok.map threw.
C6_Witness ==
  /\ last.op = "Ok.map"
  /\ Len(last.calls) = 1 /\ last.calls[1].out = "throw" /\ last.calls[1].val = Num(1)
  /\ last.out = "return"

(***************************************************************************)
(* C7: Ok(v).flatMap(fn) and Some(v).flatMap(fn) invoke fn exactly once    *)
(* with v and return the very object fn returned, building nothing around  *)
(* it; when fn throws, flatMap throws the same value and builds no Err.    *)
(***************************************************************************)
C7_FlatMapReturnsFnResult ==
  last.op \in {"Ok.flatMap", "Some.flatMap"} =>
    /\ InvokedOnceWith(Recv.value)
    /\ last.out = last.calls[1].out
    /\ last.val = last.calls[1].val
    /\ IF last.out = "throw" THEN NothingBuilt
       ELSE \/ NothingBuilt /\ last.val.n <= Len(last.pre)
            \/ Len(heap) = Len(last.pre) + 1 /\ last.val = Ref(Len(heap))

\* The function handed to Ok.flatMap threw, and the fault reached the caller.
C7_Witness ==
  /\ last.op = "Ok.flatMap"
  /\ Len(last.calls) = 1 /\ last.calls[1].out = "throw"
  /\ last.out = "throw"

C9_NoneIsSingleton ==
  /\ {i \in DOMAIN heap : heap[i].type = "none"} = {NoneId}
  /\ heap[NoneId] = None
  /\ last.op \in {"None.map", "None.flatMap", "None.flatten"} =>
       NeverInvoked /\ ReturnedNone
  /\ last.op = "Err.toOption" => ReturnedNone
  /\ last.op = "Option" /\ Nullish(last.arg) => ReturnedNone
  /\ last.op = "None.mapOr" /\ Nullish(last.d.c) => NeverInvoked /\ ReturnedNone

\* flatten on None, with other objects around.
C9_Witness == last.op = "None.flatten" /\ Len(heap) = MaxHeap

(***************************************************************************)
(* C10: Ok(v).unwrap() and Some(v).unwrap() return v; Err(e).unwrap()      *)
(* throws exactly e; None.unwrap() throws a fixed error.                   *)
(***************************************************************************)
C10_Unwrap ==
  /\ last.op \in {"Ok.unwrap", "Some.unwrap"} =>
       last.out = "return" /\ last.val = Recv.value /\ NothingBuilt
  /\ last.op = "Err.unwrap" => Threw(Recv.error)
  /\ last.op = "None.unwrap" => Threw(UnwrapNoneError)

C10_Witness == last.op = "Err.unwrap" /\ last.out = "throw" /\ last.val = Num(1)
(***************************************************************************)
(* C12: unwrapOr and unwrapOrElse throw nothing of their own and evaluate  *)
(* the fallback only on the empty variant.  On Ok(v) and Some(v) both      *)
(* return v and the function is never invoked; Err(e).unwrapOr(d) and      *)
(* None.unwrapOr(d) return d; Err(e).unwrapOrElse(f) invokes f exactly     *)
(* once, on e, and None.unwrapOrElse(f) invokes f exactly once, with no    *)
(* argument, and each ends as that invocation ended.                       *)
(***************************************************************************)
C12_UnwrapOr ==
  /\ last.op \in {"Ok.unwrapOr", "Ok.unwrapOrElse", "Some.unwrapOr", "Some.unwrapOrElse"} =>
       NeverInvoked /\ last.out = "return" /\ last.val = Recv.value /\ NothingBuilt
  /\ last.op \in {"Err.unwrapOr", "None.unwrapOr"} =>
       NeverInvoked /\ last.out = "return" /\ last.val = last.arg /\ NothingBuilt
  /\ last.op = "Err.unwrapOrElse" =>
       /\ InvokedOnceWith(Recv.error)
       /\ last.out = last.calls[1].out /\ last.val = last.calls[1].val
  /\ last.op = "None.unwrapOrElse" =>
       /\ InvokedOnceWith(Undefined)
       /\ last.out = last.calls[1].out /\ last.val = last.calls[1].val

\* unwrapOrElse on Err(null) with a function that returns 1.
C12_Witness ==
  /\ last.op = "Err.unwrapOrElse" /\ Recv.error = Null
  /\ last.out = "return" /\ last.val = Num(1)

(***************************************************************************)
(* C13: match invokes exactly one handler, exactly once, the one named     *)
(* after the receiver's variant, with the payload (no argument for None),  *)
(* and ends as that handler ended; the other handler is never invoked.     *)
(***************************************************************************)
MatchedOnly(name, x) ==
  /\ Len(last.calls) = 1
  /\ last.calls[1].handler = name
  /\ last.calls[1].arg = x
  /\ last.out = last.calls[1].out
  /\ last.val = last.calls[1].val
  /\ NothingBuilt

C13_MatchInvokesOneHandler ==
  /\ last.op = "Ok.match" => MatchedOnly("Ok", Recv.value)
  /\ last.op = "Err.match" => MatchedOnly("Err", Recv.error)
  /\ last.op = "Some.match" => MatchedOnly("Some", Recv.value)
  /\ last.op = "None.match" => MatchedOnly("None", Undefined)

\* match on Err(1) with an Err handler that returns its argument.
C13_Witness ==
  /\ last.op = "Err.match" /\ Recv.error = Num(1)
  /\ last.out = "return" /\ last.val = Num(1)

(***************************************************************************)
(* C16: flatten on Some(x) returns x itself, and builds nothing, when x is *)
(* a Some: one level is removed, so flattening Some(Some(Some(v))) gives   *)
(* its payload Some(Some(v)).  It throws when x is None or is not an       *)
(* Option.                                                                 *)
(***************************************************************************)
C16_FlattenOneLevel ==
  last.op = "Some.flatten" =>
    IF Recv.value.k = "object" /\ last.pre[Recv.value.n].type = "some"
    THEN last.out = "return" /\ last.val = Recv.value /\ NothingBuilt
    ELSE Threw(FlattenError)

\* flatten on Some(Some(Some(v))): what is returned still holds a Some.
C16_Witness ==
  /\ last.op = "Some.flatten" /\ last.out = "return"
  /\ heap[last.val.n].value.k = "object"
  /\ heap[heap[last.val.n].value.n].type = "some"

(***************************************************************************)
(* C17: Some(v).okOr(e) is a new Ok with payload v, whatever e is;         *)
(* None.okOr(e) is a new Err whose payload is e; okOr never throws.        *)
(***************************************************************************)
C17_OkOr ==
  /\ last.op = "Some.okOr" => ReturnedNew(OkOf(Recv.value))
  /\ last.op = "None.okOr" => ReturnedNew(ErrOf(last.arg))

C17_Witness == last.op = "None.okOr" /\ last.arg = Num(1) /\ last.out = "return"

(***************************************************************************)
(* C18: Some(v).map(fn) invokes fn exactly once with v; it returns a new   *)
(* Some with payload fn(v) when fn(v) is neither null nor undefined,       *)
(* throws Some's TypeError when fn(v) is null or undefined, and throws     *)
(* what fn threw when fn throws.                                           *)
(***************************************************************************)
C18_SomeMap ==
  last.op = "Some.map" =>
    /\ InvokedOnceWith(Recv.value)
    /\ IF last.calls[1].out = "throw" THEN Threw(last.calls[1].val)
       ELSE IF Nullish(last.calls[1].val) THEN Threw(SomeNullError)
       ELSE ReturnedNew(SomeOf(last.calls[1].val))

\* The function handed to Some.map returned undefined.
C18_Witness ==
  /\ last.op = "Some.map"
  /\ Len(last.calls) = 1 /\ last.calls[1].out = "return"
  /\ last.calls[1].val = Undefined
  /\ last.out = "throw"
(***************************************************************************)
(* Vocabulary of the asynchronous properties: the promise flatMapAsync     *)
(* returned and the promise the supplied function returned.                *)
(***************************************************************************)
OnPopulatedAsync == last.op \in {"Ok.flatMapAsync", "Some.flatMapAsync"}
ReturnedPromise == last.out = "return" /\ last.val.k = "promise"
FnReturnedPromise ==
  /\ Len(last.calls) = 1
  /\ last.calls[1].out = "return"
  /\ last.calls[1].val.k = "promise"
Outer == promises[last.val.n]
Inner == promises[last.calls[1].val.n]

(***************************************************************************)
(* C11: when every supplied callback returned normally, a call throws only *)
(* in three cases: unwrap on an Err or on None; a Some being built from    *)
(* null or undefined (by Some itself, or by map or mapOr on a Some wrapping*)
(* an absent result); flatten on a Some whose payload is not a Some.       *)
(* Every other call, flatMapAsync included, returns.                       *)
(***************************************************************************)
CallbacksReturned == \A i \in DOMAIN last.calls : last.calls[i].out = "return"

C11_FaultsOnlyInThreeCases ==
  (last.out = "throw" /\ CallbacksReturned) =>
    \/ last.op \in {"Err.unwrap", "None.unwrap"}
    \/ /\ last.val = SomeNullError
       /\ \/ last.op = "Some" /\ Nullish(last.arg)
          \/ /\ last.op \in {"Some.map", "Some.mapOr"}
             /\ Len(last.calls) = 1 /\ Nullish(last.calls[1].val)
    \/ /\ last.op = "Some.flatten" /\ last.val = FlattenError
       /\ ~(Recv.value.k = "object" /\ last.pre[Recv.value.n].type = "some")

\* flatten on Some(None) throws.
C11_Witness ==
  last.op = "Some.flatten" /\ Recv.value = Ref(NoneId) /\ last.out = "throw"

(***************************************************************************)
(* C14: flatMapAsync on Ok(v) or Some(v) invokes fn exactly once with v.   *)
(* When fn returned a promise p, the call returns another promise, which   *)
(* is not settled while p is pending, and which, p being fulfilled, is     *)
(* never rejected, is fulfilled with exactly the value p was fulfilled     *)
(* with, and is fulfilled once no microtask is left.                       *)
(***************************************************************************)
C14_FlatMapAsyncFollowsPromise ==
  OnPopulatedAsync =>
    /\ InvokedOnceWith(Recv.value)
    /\ FnReturnedPromise =>
         /\ ReturnedPromise /\ last.val # last.calls[1].val
         /\ Outer.state # "pending" => Inner.state # "pending"
         /\ Inner.state = "fulfilled" =>
              /\ Outer.state # "rejected"
              /\ Outer.state = "fulfilled" => Outer.val = Inner.val
              /\ jobs = <<>> => Outer.state = "fulfilled"

\* fn returned a pending promise, the caller fulfilled it later with the
\* receiver itself, and the promise of flatMapAsync is fulfilled with it.
C14_Witness ==
  /\ last.op = "Ok.flatMapAsync" /\ FnReturnedPromise
  /\ Outer.state = "fulfilled" /\ Outer.val = Ref(last.recv)

(***************************************************************************)
(* C15: flatMapAsync on Err(e) never invokes fn and waits on no promise:   *)
(* the promise it returns is already fulfilled, with a new Err carrying e, *)
(* when the call returns, and no other promise or microtask exists.  On    *)
(* None it never invokes fn and returns a promise already fulfilled with   *)
(* the None singleton.                                                     *)
(***************************************************************************)
C15_EmptyFlatMapAsyncIsImmediate ==
  /\ last.op = "Err.flatMapAsync" =>
       /\ NeverInvoked /\ ReturnedPromise
       /\ heap = Append(last.pre, ErrOf(Recv.error))
       /\ promises = <<Settled("fulfilled", Ref(Len(heap)))>> /\ jobs = <<>>
  /\ last.op = "None.flatMapAsync" =>
       /\ NeverInvoked /\ ReturnedPromise /\ NothingBuilt
       /\ promises = <<Settled("fulfilled", Ref(NoneId))>> /\ jobs = <<>>

C15_Witness ==
  /\ last.op = "Err.flatMapAsync" /\ Recv.error = Num(1)
  /\ promises[last.val.n].state = "fulfilled"

(***************************************************************************)
(* C19: flatMapAsync on Ok or Some always returns a promise and never      *)
(* throws.  When fn threw, that promise is rejected with the thrown value  *)
(* already.  When the promise fn returned is rejected, that promise is     *)
(* never fulfilled, is rejected with the same reason, and is rejected once *)
(* no microtask is left.  In both cases no container is built.             *)
(***************************************************************************)
C19_AsyncFaultRejects ==
  OnPopulatedAsync =>
    /\ ReturnedPromise
    /\ (Len(last.calls) = 1 /\ last.calls[1].out = "throw") =>
         /\ Outer = Settled("rejected", last.calls[1].val)
         /\ NothingBuilt
    /\ (FnReturnedPromise /\ Inner.state = "rejected") =>
         /\ Outer.state # "fulfilled"
         /\ Outer.state = "rejected" => Outer.val = Inner.val
         /\ jobs = <<>> => Outer.state = "rejected"
         /\ NothingBuilt

\* The promise fn returned was rejected, and so is the promise of flatMapAsync.
C19_Witness ==
  /\ last.op = "Some.flatMapAsync" /\ FnReturnedPromise
  /\ Inner.state = "rejected" /\ Outer.state = "rejected" /\ Outer.val = Num(1)
====
